---- MODULE Spec2Model ----
(***************************************************************************)
(* WordDash web client (src/src/app/page.tsx): the Home component's local *)
(* state, its socket event handlers, its command handlers with their       *)
(* acknowledgement callbacks, and its timer effects.                       *)
(*                                                                         *)
(* Every useState cell of Home is a variable of the same name.  A handler  *)
(* runs to completion, React re-renders and re-runs the effects whose      *)
(* dependencies changed: one action is one handler plus that effect pass.  *)
(*                                                                         *)
(* The specifications share the handlers:                                  *)
(*   Spec         the socket's inbound events, the timers and the clock    *)
(*                (the user stays idle);                                   *)
(*   SpecGateway  the user's commands through the rendered, enabled        *)
(*                controls, their acknowledgements, and the inbound events *)
(*                that decide which controls are rendered;                 *)
(*   SpecSubmit   SpecGateway with the two forms' submit events dispatched *)
(*                to onSubmit directly, whatever the submit button's       *)
(*                disabled attribute says;                                 *)
(*   SpecClock    the round's countdown during a match;                    *)
(*   SpecPlay     guesses and the end-game command during a match;         *)
(*   SpecFeedback the guess feedback, the copy confirmation, their timers; *)
(*   SpecSnapshot room snapshots arriving in the middle of a match;        *)
(*   SpecFair     Spec with timeouts that fire, for what eventually holds; *)
(*   SpecLeaderboard, SpecPreview                                          *)
(*                the render's pure functions over the states that the     *)
(*                snapshots, the rounds and the guess input produce.       *)
(***************************************************************************)
EXTENDS Integers, Sequences, FiniteSets, Bags, TLC

VARIABLES
    hasSocketUrl,      \* SOCKET_URL is a non-empty string
    appEnabled,        \* APP_STATUS === "enabled"
    mounted,           \* the connection effect of the first render has run
    socketRef,         \* socketRef.current is a socket (TRUE) or null (FALSE)
    nickname,
    roomCodeInput,
    roomCode,
    playerId,
    roomStatus,
    players,
    isConnected,
    isJoined,
    globalSeconds,
    round,
    roundRemainingMs,
    roundEnd,
    ended,
    guessFeedback,
    copyStatus,
    guess,
    error,
    busy,
    pending,           \* bag of the events whose acknowledgement callback the socket holds
    outbox,            \* the game:guess payloads handed to socket.emit, in order
    roundTimer,        \* the rounds captured by the live setInterval callbacks
    feedbackTimer,     \* the guessFeedback objects (by ref) whose setTimeout is live
    copyTimer,         \* the copy whose copyStatus setTimeout is live, or 0
    now,               \* Date.now()
    lastStatus,        \* history: status carried by the latest status-bearing event
    copyRef            \* history: the latest copy that set a confirmation, or 0

configVars == <<hasSocketUrl, appEnabled>>
formVars   == <<nickname, roomCodeInput, guess>>
roomVars   == <<roomCode, roomStatus, players>>
matchVars  == <<globalSeconds, round, roundRemainingMs, roundEnd, ended, guessFeedback>>
selfVars   == <<playerId, isJoined>>
intentVars == <<error, busy, pending>>
timerVars  == <<roundTimer, feedbackTimer, copyTimer>>
logVars    == <<copyRef, outbox>>

vars == <<hasSocketUrl, appEnabled, mounted, socketRef, nickname, roomCodeInput,
          roomCode, playerId, roomStatus, players, isConnected, isJoined,
          globalSeconds, round, roundRemainingMs, roundEnd, ended, guessFeedback,
          copyStatus, guess, error, busy, pending, roundTimer, feedbackTimer,
          copyTimer, now, lastStatus, copyRef, outbox>>

(***************************************************************************)
(* Bounds of the model.                                                    *)
(***************************************************************************)
MaxNow == 2
MaxPending == 2
MaxRefs == 3
MaxSent == 2
MaxPlayers == 3
MaxTokens == 4
MaxGuessLen == 3

(***************************************************************************)
(* Values.                                                                 *)
(***************************************************************************)
\* JavaScript null for the object-valued cells (round, roundEnd, ended, guessFeedback).
Null == [null |-> TRUE]

\* An optional payload field that is absent (read as undefined).
Undefined == "<undefined>"

RoomStatus == {"lobby", "in_game", "finished"}

InitialGlobalSeconds == 180

DefaultPoints == 10

Player(id, nick, score, host) ==
    [id |-> id, nickname |-> nick, score |-> score, connected |-> TRUE, isHost |-> host]

\* Text is a sequence of one-character strings, so that trim() and
\* toUpperCase() are computed and not assumed.
Whitespace == {" "}

RECURSIVE TrimStart(_)
TrimStart(s) ==
    IF s = <<>> THEN s
    ELSE IF Head(s) \in Whitespace THEN TrimStart(Tail(s)) ELSE s

RECURSIVE TrimEnd(_)
TrimEnd(s) ==
    IF s = <<>> THEN s
    ELSE IF s[Len(s)] \in Whitespace THEN TrimEnd(SubSeq(s, 1, Len(s) - 1)) ELSE s

Trim(s) == TrimEnd(TrimStart(s))

UpperChar(c) ==
    CASE c = "a" -> "A"
      [] c = "b" -> "B"
      [] OTHER -> c

ToUpperCase(s) == [i \in 1..Len(s) |-> UpperChar(s[i])]

Max(a, b) == IF a >= b THEN a ELSE b

Min(a, b) == IF a <= b THEN a ELSE b

\* /^[A-Z]$/
UpperLetters ==
    {"A", "B", "C", "D", "E", "F", "G", "H", "I", "J", "K", "L", "M",
     "N", "O", "P", "Q", "R", "S", "T", "U", "V", "W", "X", "Y", "Z"}

\* s.replace(/\s+/g, "")
RemoveWhitespace(s) == SelectSeq(s, LAMBDA c : c \notin Whitespace)

\* s.split(" "): the pieces between the spaces, empty pieces included.
RECURSIVE Split(_)
Split(s) ==
    IF \A i \in 1..Len(s) : s[i] # " " THEN <<s>>
    ELSE LET i == CHOOSE k \in 1..Len(s) :
                      s[k] = " " /\ \A j \in 1..(k - 1) : s[j] # " "
         IN <<SubSeq(s, 1, i - 1)>> \o Split(SubSeq(s, i + 1, Len(s)))

\* tokens.join(" ")
RECURSIVE Join(_)
Join(tokens) ==
    IF tokens = <<>> THEN <<>>
    ELSE IF Len(tokens) = 1 THEN tokens[1]
    ELSE tokens[1] \o <<" ">> \o Join(Tail(tokens))

\* Mutant of previewDisplay: the loop also overlays the first and the last token.
previewDisplayOverlaysEnds(baseDisplay, typedGuess) ==
    LET tokens == Split(baseDisplay)
        typed == RemoveWhitespace(ToUpperCase(Trim(typedGuess)))
    IN IF Len(tokens) <= 2 THEN baseDisplay
       ELSE Join([k \in 1..Len(tokens) |->
                    IF k <= Len(typed) /\ typed[k] \in UpperLetters
                    THEN <<typed[k]>>
                    ELSE tokens[k]])

\* The loop runs idx over the interior tokens; typed[idx] and tokens[idx] are
\* the same position of both (0-based there, k = idx + 1 here).
previewDisplay(baseDisplay, typedGuess) ==
    LET tokens == Split(baseDisplay)
        typed == RemoveWhitespace(ToUpperCase(Trim(typedGuess)))
    IN IF Len(tokens) <= 2 THEN baseDisplay
       ELSE Join([k \in 1..Len(tokens) |->
                    IF /\ k \in 2..(Len(tokens) - 1)
                       /\ k <= Len(typed)
                       /\ typed[k] \in UpperLetters
                    THEN <<typed[k]>>
                    ELSE tokens[k]])

\* Array.prototype.sort with (a, b) => b.score - a.score: a stable sort, so
\* each element goes behind those whose score is at least its own.
RECURSIVE InsertByScore(_, _)
InsertByScore(sorted, player) ==
    IF sorted = <<>> THEN <<player>>
    ELSE IF Head(sorted).score >= player.score
    THEN <<Head(sorted)>> \o InsertByScore(Tail(sorted), player)
    ELSE <<player>> \o sorted

RECURSIVE SortByScore(_)
SortByScore(list) ==
    IF list = <<>> THEN <<>>
    ELSE InsertByScore(SortByScore(SubSeq(list, 1, Len(list) - 1)), list[Len(list)])

\* Mutant of Leaderboard: players.sort(...) sorts the state's array in place.
LeaderboardSortsInPlace(list) ==
    [sortedPlayers |-> SortByScore(list), players |-> SortByScore(list)]

\* [...players].sort(...): the two arrays after the call, the sorted copy and
\* the array it was copied from.
Leaderboard(list) ==
    [sortedPlayers |-> SortByScore(list), players |-> list]

(***************************************************************************)
(* Inputs: what the user can type and what the server can send.            *)
(***************************************************************************)
TypedNicknames == {<<>>, <<" ">>, <<"A">>}

TypedRoomCodes == {<<>>, <<" ">>, <<"a">>}

TypedGuesses == {<<>>, <<" ">>, <<" ", "a">>, <<"b", " ">>}

\* The texts of at most n characters over an alphabet.
Texts(alphabet, n) == UNION {[1..k -> alphabet] : k \in 0..n}

\* The ?room= query parameter of the page's URL, when there is one.
RoomQueryParams == {<<>>, <<"a">>}

PlayerLists ==
    { <<Player("p1", "Ann", 10, TRUE)>>,
      <<Player("p2", "Bob", 20, TRUE), Player("p1", "Ann", 10, FALSE)>> }

Snapshots ==
    [roomCode : {"AB12"}, status : RoomStatus, players : PlayerLists]
    \cup [roomCode : {"CD34"}, status : RoomStatus, players : {<<>>}]

\* The snapshots of the one room the user created or joined.
RoomSnapshots == {payload \in Snapshots : payload.roomCode = "AB12"}

RoundPayloads ==
    { [display |-> <<"_", " ", "A", " ", "_">>, hint |-> "animal", roundEndsAt |-> 2, roundDurationMs |-> 2],
      [display |-> <<"_", " ", "B", " ", "_">>, hint |-> "colour", roundEndsAt |-> 1, roundDurationMs |-> 3] }

\* Rounds whose deadline lies further ahead of the client's clock than their
\* duration, and rounds of no duration.
ClockRoundPayloads ==
    RoundPayloads \cup
    { [display |-> <<"_", " ", "A", " ", "_">>, hint |-> "animal", roundEndsAt |-> 3,
       roundDurationMs |-> 2],
      [display |-> <<"_", " ", "A", " ", "_">>, hint |-> "animal", roundEndsAt |-> 0,
       roundDurationMs |-> 0] }

\* Masked patterns: one to MaxTokens tokens, each the mask or a revealed letter.
PreviewDisplays ==
    {Join(tokens) : tokens \in UNION {[1..k -> {<<"_">>, <<"X">>}] : k \in 1..MaxTokens}}

PreviewRoundPayloads ==
    [display : PreviewDisplays, hint : {"animal"}, roundEndsAt : {2},
     roundDurationMs : {2}]

PreviewGuesses == Texts({"a", " ", "1"}, MaxGuessLen)

\* Player lists of at most MaxPlayers players with distinct ids, in any order,
\* with scores that tie.
Scores == {10, 20}

PlayerIds == <<"p1", "p2", "p3", "p4", "p5">>

LeaderboardLists ==
    UNION { { [i \in 1..k |-> Player(PlayerIds[ids[i]], PlayerIds[ids[i]], scores[i],
                                      ids[i] = 1)] :
                  ids \in {f \in [1..k -> 1..MaxPlayers] :
                               \A i, j \in 1..k : i # j => f[i] # f[j]},
                  scores \in [1..k -> Scores] } :
            k \in 0..MaxPlayers }

LeaderboardSnapshots ==
    [roomCode : {"AB12"}, status : RoomStatus, players : LeaderboardLists]

RoundEndPayloads ==
    { [reason |-> "guessed", word |-> "CAT", winnerPlayerId |-> "p1",
       winnerNickname |-> "Ann", pointsAwarded |-> 10] }

GameEndedPayloads ==
    { [rankings |-> <<Player("p1", "Ann", 10, TRUE)>>, winners |-> <<"p1">>,
       reviewRows |-> <<[word |-> "CAT", winnerPlayerId |-> "p1", winnerNickname |-> "Ann",
                         pointsAwarded |-> 10, reason |-> "guessed"]>>] }

TickPayloads == { [remainingSeconds |-> 179] }

GuessResultPayloads ==
    { [status |-> "correct", points |-> 5],
      [status |-> "correct"],
      [status |-> "incorrect"] }

ServerErrorPayloads == { [message |-> "Room is full"], [message |-> Undefined] }

AckResults ==
    { [ok |-> TRUE, message |-> Undefined, playerId |-> "p1"],
      [ok |-> TRUE, message |-> Undefined, playerId |-> Undefined],
      [ok |-> FALSE, message |-> "Rejected", playerId |-> Undefined],
      [ok |-> FALSE, message |-> Undefined, playerId |-> Undefined] }

\* a ?? b
OrElse(a, b) == IF a = Undefined THEN b ELSE a

(***************************************************************************)
(* Derived values of a render.                                             *)
(***************************************************************************)
missingSocketUrl == ~hasSocketUrl

isHost == \E i \in 1..Len(players) : players[i].id = playerId /\ players[i].isHost

sortedPlayers == Leaderboard(players).sortedPlayers

inviteLink == IF roomCode = "" THEN "" ELSE <<"origin", "/?room=", roomCode>>

\* A fraction num/den: for a positive duration d,
\* Math.min(1, Math.max(0, r / d)) is min(d, max(0, r)) / d.
roundProgress ==
    IF round = Null \/ round.roundDurationMs <= 0
    THEN [num |-> 0, den |-> 1]
    ELSE [num |-> Min(round.roundDurationMs, Max(0, roundRemainingMs)),
          den |-> round.roundDurationMs]

previewText == IF round = Null THEN <<>> ELSE previewDisplay(round.display, guess)

(***************************************************************************)
(* Initial state: the first render, before its effects.                    *)
(***************************************************************************)
Init ==
    /\ hasSocketUrl \in BOOLEAN
    /\ appEnabled \in BOOLEAN
    /\ mounted = FALSE
    /\ socketRef = FALSE
    /\ nickname = <<>>
    /\ roomCodeInput \in {ToUpperCase(q) : q \in RoomQueryParams}
    /\ roomCode = ""
    /\ playerId = ""
    /\ roomStatus = "lobby"
    /\ players = <<>>
    /\ isConnected = FALSE
    /\ isJoined = FALSE
    /\ globalSeconds = InitialGlobalSeconds
    /\ round = Null
    /\ roundRemainingMs = 0
    /\ roundEnd = Null
    /\ ended = Null
    /\ guessFeedback = Null
    /\ copyStatus = ""
    /\ guess = <<>>
    /\ error = ""
    /\ busy = FALSE
    /\ pending = EmptyBag
    /\ outbox = <<>>
    /\ roundTimer = {}
    /\ feedbackTimer = {}
    /\ copyTimer = 0
    /\ now = 0
    /\ lastStatus = "lobby"
    /\ copyRef = 0

(***************************************************************************)
(* The effect pass that follows a handler.  A timer effect whose           *)
(* dependency changed runs the cleanup of its previous run, which clears   *)
(* the timer that run started, and then runs again.  An object-valued      *)
(* dependency changes when a handler stores a new object; replacing an     *)
(* object by an equal one clears and restarts the timer for that value.    *)
(* The string-valued copyStatus changes only when the text differs.        *)
(***************************************************************************)
\* The object identity of a guessFeedback value, as a set.
RefOf(feedback) == IF feedback = Null THEN {} ELSE {feedback.ref}

\* The least reference in 1..MaxRefs that is not in use.
FreshRef(used) ==
    CHOOSE r \in (1..MaxRefs) \ used : \A q \in (1..MaxRefs) \ used : r <= q

\* Mutant of RoundEffect: the effect has no cleanup.
RoundEffectWithoutCleanup(timers) == timers \cup ({round'} \ {Null})

\* useEffect(..., [round]): clearInterval of the old round's interval, then
\* setInterval for the new round if there is one.
RoundEffect(timers) ==
    IF round' = round THEN timers
    ELSE (timers \ {round}) \cup ({round'} \ {Null})

\* Mutant of FeedbackEffect: the effect clears the old timeout and sets none.
FeedbackEffectSetsNoTimeout(timers) ==
    IF guessFeedback' = guessFeedback THEN timers
    ELSE timers \ RefOf(guessFeedback)

\* useEffect(..., [guessFeedback]): clearTimeout, then setTimeout if non-null.
FeedbackEffect(timers) ==
    IF guessFeedback' = guessFeedback THEN timers
    ELSE (timers \ RefOf(guessFeedback)) \cup RefOf(guessFeedback')

\* useEffect(..., [copyStatus]): clearTimeout, then setTimeout if non-empty.
CopyEffect(timer) ==
    IF copyStatus' = copyStatus THEN timer
    ELSE IF copyStatus' = "" THEN 0 ELSE copyRef'

RunEffects ==
    /\ roundTimer' = RoundEffect(roundTimer)
    /\ feedbackTimer' = FeedbackEffect(feedbackTimer)
    /\ copyTimer' = CopyEffect(copyTimer)

\* Mutant of Mount: the effect creates the socket without looking at the URL.
MountAlwaysConnects ==
    /\ ~mounted
    /\ mounted' = TRUE
    /\ socketRef' = TRUE
    /\ UNCHANGED <<configVars, formVars, roomVars, matchVars, selfVars, intentVars,
                   isConnected, copyStatus, logVars, now, lastStatus>>
    /\ RunEffects

\* The connection effect of the first render.
Mount ==
    /\ ~mounted
    /\ mounted' = TRUE
    /\ socketRef' = ~missingSocketUrl
    /\ UNCHANGED <<configVars, formVars, roomVars, matchVars, selfVars, intentVars,
                   isConnected, copyStatus, logVars, now, lastStatus>>
    /\ RunEffects

\* An event reaches a handler only on a socket that exists and is connected.
Listening == mounted /\ socketRef /\ isConnected

Connect ==
    /\ mounted /\ socketRef /\ ~isConnected
    /\ isConnected' = TRUE
    /\ error' = ""
    /\ UNCHANGED <<configVars, mounted, socketRef, formVars, roomVars, matchVars,
                   selfVars, busy, pending, copyStatus, logVars, now, lastStatus>>
    /\ RunEffects

\* Mutant of Disconnect: a disconnect that also blanks the room and the round.
DisconnectResets ==
    /\ Listening
    /\ isConnected' = FALSE
    /\ roomCode' = ""
    /\ players' = <<>>
    /\ round' = Null
    /\ roundRemainingMs' = 0
    /\ UNCHANGED <<configVars, mounted, socketRef, formVars, roomStatus, globalSeconds,
                   roundEnd, ended, guessFeedback, selfVars, intentVars, copyStatus, logVars,
                   now, lastStatus>>
    /\ RunEffects

Disconnect ==
    /\ Listening
    /\ isConnected' = FALSE
    /\ UNCHANGED <<configVars, mounted, socketRef, formVars, roomVars, matchVars,
                   selfVars, intentVars, copyStatus, logVars, now, lastStatus>>
    /\ RunEffects

\* Mutant of ServerError: the handler shows the message and keeps the busy guard.
ServerErrorKeepsBusy(payload) ==
    /\ Listening
    /\ error' = OrElse(payload.message, "Unexpected server error")
    /\ UNCHANGED <<configVars, mounted, socketRef, formVars, roomVars, matchVars,
                   selfVars, busy, pending, isConnected, copyStatus, logVars, now,
                   lastStatus>>
    /\ RunEffects

ServerError(payload) ==
    /\ Listening
    /\ error' = OrElse(payload.message, "Unexpected server error")
    /\ busy' = FALSE
    /\ UNCHANGED <<configVars, mounted, socketRef, formVars, roomVars, matchVars,
                   selfVars, pending, isConnected, copyStatus, logVars, now, lastStatus>>
    /\ RunEffects

\* The cells the room:state handler writes, as one value.
SyncState ==
    [roomCode |-> roomCode, roomStatus |-> roomStatus, players |-> players,
     round |-> round, roundEnd |-> roundEnd, ended |-> ended,
     guessFeedback |-> guessFeedback, roundRemainingMs |-> roundRemainingMs,
     globalSeconds |-> globalSeconds]

\* Mutant of ApplyRoomState: the snapshot's players are merged into the list.
ApplyRoomStateMerging(st, payload) ==
    LET replaced == [st EXCEPT !.roomCode = payload.roomCode,
                               !.roomStatus = payload.status,
                               !.players = st.players \o payload.players]
    IN  IF payload.status = "lobby"
        THEN [replaced EXCEPT !.round = Null,
                              !.roundEnd = Null,
                              !.ended = Null,
                              !.guessFeedback = Null,
                              !.roundRemainingMs = 0,
                              !.globalSeconds = InitialGlobalSeconds]
        ELSE replaced

\* Mutant of ApplyRoomState: a lobby snapshot that keeps the match result.
ApplyRoomStateKeepingResult(st, payload) ==
    LET replaced == [st EXCEPT !.roomCode = payload.roomCode,
                               !.roomStatus = payload.status,
                               !.players = payload.players]
    IN  IF payload.status = "lobby"
        THEN [replaced EXCEPT !.round = Null,
                              !.roundEnd = Null,
                              !.guessFeedback = Null,
                              !.roundRemainingMs = 0,
                              !.globalSeconds = InitialGlobalSeconds]
        ELSE replaced

\* Mutant of ApplyRoomState: every snapshot outside a match resets the match.
ApplyRoomStateResetsOutsideMatch(st, payload) ==
    LET replaced == [st EXCEPT !.roomCode = payload.roomCode,
                               !.roomStatus = payload.status,
                               !.players = payload.players]
    IN  IF payload.status # "in_game"
        THEN [replaced EXCEPT !.round = Null,
                              !.roundEnd = Null,
                              !.ended = Null,
                              !.guessFeedback = Null,
                              !.roundRemainingMs = 0,
                              !.globalSeconds = InitialGlobalSeconds]
        ELSE replaced

\* The room:state handler as a function of those cells.
ApplyRoomState(st, payload) ==
    LET replaced == [st EXCEPT !.roomCode = payload.roomCode,
                               !.roomStatus = payload.status,
                               !.players = payload.players]
    IN  IF payload.status = "lobby"
        THEN [replaced EXCEPT !.round = Null,
                              !.roundEnd = Null,
                              !.ended = Null,
                              !.guessFeedback = Null,
                              !.roundRemainingMs = 0,
                              !.globalSeconds = InitialGlobalSeconds]
        ELSE replaced

RoomState(payload) ==
    /\ Listening
    /\ LET next == ApplyRoomState(SyncState, payload)
       IN  /\ roomCode' = next.roomCode
           /\ roomStatus' = next.roomStatus
           /\ players' = next.players
           /\ round' = next.round
           /\ roundEnd' = next.roundEnd
           /\ ended' = next.ended
           /\ guessFeedback' = next.guessFeedback
           /\ roundRemainingMs' = next.roundRemainingMs
           /\ globalSeconds' = next.globalSeconds
    /\ lastStatus' = payload.status
    /\ UNCHANGED <<configVars, mounted, socketRef, formVars, selfVars, intentVars,
                   isConnected, copyStatus, logVars, now>>
    /\ RunEffects

\* Mutant of GameStarted: the previous match's result is not discarded.
GameStartedKeepsResult ==
    /\ Listening
    /\ roomStatus' = "in_game"
    /\ roundEnd' = Null
    /\ guessFeedback' = Null
    /\ copyStatus' = ""
    /\ lastStatus' = "in_game"
    /\ UNCHANGED <<configVars, mounted, socketRef, formVars, roomCode, players,
                   globalSeconds, round, roundRemainingMs, ended, selfVars,
                   intentVars, isConnected, logVars, now>>
    /\ RunEffects

GameStarted ==
    /\ Listening
    /\ roomStatus' = "in_game"
    /\ roundEnd' = Null
    /\ ended' = Null
    /\ guessFeedback' = Null
    /\ copyStatus' = ""
    /\ lastStatus' = "in_game"
    /\ UNCHANGED <<configVars, mounted, socketRef, formVars, roomCode, players,
                   globalSeconds, round, roundRemainingMs, selfVars, intentVars,
                   isConnected, logVars, now>>
    /\ RunEffects

GameTick(payload) ==
    /\ Listening
    /\ globalSeconds' = payload.remainingSeconds
    /\ UNCHANGED <<configVars, mounted, socketRef, formVars, roomVars, round,
                   roundRemainingMs, roundEnd, ended, guessFeedback, selfVars,
                   intentVars, isConnected, copyStatus, logVars, now, lastStatus>>
    /\ RunEffects

\* Mutant of GameRound: a round that begins also moves the room to in_game.
GameRoundStartsMatch(payload) ==
    /\ Listening
    /\ roomStatus' = "in_game"
    /\ round' = [display |-> payload.display, hint |-> payload.hint,
                 roundEndsAt |-> payload.roundEndsAt,
                 roundDurationMs |-> payload.roundDurationMs]
    /\ roundRemainingMs' = payload.roundDurationMs
    /\ roundEnd' = Null
    /\ guessFeedback' = Null
    /\ guess' = <<>>
    /\ UNCHANGED <<configVars, mounted, socketRef, nickname, roomCodeInput, roomCode,
                   players, globalSeconds, ended, selfVars, intentVars, isConnected,
                   copyStatus, logVars, now, lastStatus>>
    /\ RunEffects

\* Mutant of GameRound: the previous round's end is left on screen.
GameRoundKeepsRoundEnd(payload) ==
    /\ Listening
    /\ round' = [display |-> payload.display, hint |-> payload.hint,
                 roundEndsAt |-> payload.roundEndsAt,
                 roundDurationMs |-> payload.roundDurationMs]
    /\ roundRemainingMs' = payload.roundDurationMs
    /\ guessFeedback' = Null
    /\ guess' = <<>>
    /\ UNCHANGED <<configVars, mounted, socketRef, nickname, roomCodeInput, roomVars,
                   globalSeconds, roundEnd, ended, selfVars, intentVars, isConnected,
                   copyStatus, logVars, now, lastStatus>>
    /\ RunEffects

GameRound(payload) ==
    /\ Listening
    /\ round' = [display |-> payload.display, hint |-> payload.hint,
                 roundEndsAt |-> payload.roundEndsAt,
                 roundDurationMs |-> payload.roundDurationMs]
    /\ roundRemainingMs' = payload.roundDurationMs
    /\ roundEnd' = Null
    /\ guessFeedback' = Null
    /\ guess' = <<>>
    /\ UNCHANGED <<configVars, mounted, socketRef, nickname, roomCodeInput, roomVars,
                   globalSeconds, ended, selfVars, intentVars, isConnected,
                   copyStatus, logVars, now, lastStatus>>
    /\ RunEffects

\* Mutant of GameRoundEnded: the remaining time of the ended round is kept.
GameRoundEndedKeepsRemaining(payload) ==
    /\ Listening
    /\ round' = Null
    /\ roundEnd' = payload
    /\ guessFeedback' = Null
    /\ guess' = <<>>
    /\ UNCHANGED <<configVars, mounted, socketRef, nickname, roomCodeInput, roomVars,
                   globalSeconds, roundRemainingMs, ended, selfVars, intentVars,
                   isConnected, copyStatus, logVars, now, lastStatus>>
    /\ RunEffects

GameRoundEnded(payload) ==
    /\ Listening
    /\ round' = Null
    /\ roundRemainingMs' = 0
    /\ roundEnd' = payload
    /\ guessFeedback' = Null
    /\ guess' = <<>>
    /\ UNCHANGED <<configVars, mounted, socketRef, nickname, roomCodeInput, roomVars,
                   globalSeconds, ended, selfVars, intentVars, isConnected,
                   copyStatus, logVars, now, lastStatus>>
    /\ RunEffects

\* Mutant of GameEnded: the running round is not cleared.
GameEndedKeepsRound(payload) ==
    /\ Listening
    /\ roomStatus' = "finished"
    /\ ended' = payload
    /\ roundEnd' = Null
    /\ guessFeedback' = Null
    /\ globalSeconds' = 0
    /\ guess' = <<>>
    /\ lastStatus' = "finished"
    /\ UNCHANGED <<configVars, mounted, socketRef, nickname, roomCodeInput, roomCode,
                   players, round, roundRemainingMs, selfVars, intentVars,
                   isConnected, copyStatus, logVars, now>>
    /\ RunEffects

GameEnded(payload) ==
    /\ Listening
    /\ roomStatus' = "finished"
    /\ ended' = payload
    /\ round' = Null
    /\ roundRemainingMs' = 0
    /\ roundEnd' = Null
    /\ guessFeedback' = Null
    /\ globalSeconds' = 0
    /\ guess' = <<>>
    /\ lastStatus' = "finished"
    /\ UNCHANGED <<configVars, mounted, socketRef, nickname, roomCodeInput, roomCode,
                   players, selfVars, intentVars, isConnected, copyStatus, logVars, now>>
    /\ RunEffects

\* `CORRECT! +${payload.points ?? 10} POINTS`
CorrectMessage(payload) ==
    <<"CORRECT! +",
      IF "points" \in DOMAIN payload THEN payload.points ELSE DefaultPoints,
      " POINTS">>

\* Each event stores a new object: ref is its identity.
GuessResult(payload) ==
    /\ Listening
    /\ (1..MaxRefs) \ (RefOf(guessFeedback) \cup feedbackTimer) # {}
    /\ LET ref == FreshRef(RefOf(guessFeedback) \cup feedbackTimer)
       IN guessFeedback' =
              IF payload.status = "correct"
              THEN [status |-> "correct", message |-> CorrectMessage(payload),
                    ref |-> ref]
              ELSE [status |-> "incorrect", message |-> <<"NOPE. TRY AGAIN.">>,
                    ref |-> ref]
    /\ UNCHANGED <<configVars, mounted, socketRef, formVars, roomVars, globalSeconds,
                   round, roundRemainingMs, roundEnd, ended, selfVars, intentVars,
                   isConnected, copyStatus, logVars, now, lastStatus>>
    /\ RunEffects

(***************************************************************************)
(* Timers and the clock.                                                   *)
(***************************************************************************)
\* Mutant of RoundInterval: at the deadline the callback ends the round itself.
RoundIntervalEndsRound(captured) ==
    /\ mounted
    /\ captured \in roundTimer
    /\ roundRemainingMs' = Max(0, captured.roundEndsAt - now)
    /\ round' = IF now >= captured.roundEndsAt THEN Null ELSE round
    /\ UNCHANGED <<configVars, mounted, socketRef, formVars, roomVars, globalSeconds,
                   roundEnd, ended, guessFeedback, selfVars, intentVars,
                   isConnected, copyStatus, logVars, now, lastStatus>>
    /\ RunEffects

\* Mutant of RoundInterval: the callback counts the stored value down.
RoundIntervalCountsDown(captured) ==
    /\ mounted
    /\ captured \in roundTimer
    /\ roundRemainingMs' = roundRemainingMs - 1
    /\ UNCHANGED <<configVars, mounted, socketRef, formVars, roomVars, globalSeconds,
                   round, roundEnd, ended, guessFeedback, selfVars, intentVars,
                   isConnected, copyStatus, logVars, now, lastStatus>>
    /\ RunEffects

\* The setInterval callback of the round effect; it reads the round it captured.
RoundInterval(captured) ==
    /\ mounted
    /\ captured \in roundTimer
    /\ roundRemainingMs' = Max(0, captured.roundEndsAt - now)
    /\ UNCHANGED <<configVars, mounted, socketRef, formVars, roomVars, globalSeconds,
                   round, roundEnd, ended, guessFeedback, selfVars, intentVars,
                   isConnected, copyStatus, logVars, now, lastStatus>>
    /\ RunEffects

RoundTick == \E captured \in roundTimer : RoundInterval(captured)

\* The setTimeout callback of the guessFeedback effect run for the object ref;
\* a timeout that fired is no longer live.
FeedbackTimeout(ref) ==
    /\ mounted
    /\ ref \in feedbackTimer
    /\ guessFeedback' = Null
    /\ UNCHANGED <<configVars, mounted, socketRef, formVars, roomVars, globalSeconds,
                   round, roundRemainingMs, roundEnd, ended, selfVars, intentVars,
                   isConnected, copyStatus, logVars, now, lastStatus>>
    /\ roundTimer' = RoundEffect(roundTimer)
    /\ feedbackTimer' = FeedbackEffect(feedbackTimer \ {ref})
    /\ copyTimer' = CopyEffect(copyTimer)

FeedbackExpire == \E ref \in feedbackTimer : FeedbackTimeout(ref)

AdvanceClock ==
    /\ now < MaxNow
    /\ now' = now + 1
    /\ UNCHANGED <<configVars, mounted, socketRef, formVars, roomVars, matchVars,
                   selfVars, intentVars, isConnected, copyStatus, logVars, timerVars,
                   lastStatus>>

(***************************************************************************)
(* Command gateway: the handlers of the user's commands and the            *)
(* acknowledgement callbacks they hand to socket.emit.                     *)
(***************************************************************************)
\* setError("") followed by withSocket(socket => socket.emit(event, ..., callback)):
\* with no socket the action is not run and the error is the last one set.
withSocket(event) ==
    IF socketRef
    THEN /\ error' = ""
         /\ pending' = pending (+) SetToBag({event})
    ELSE /\ error' = "Socket is not ready"
         /\ pending' = pending

\* Mutant of createRoom: the nickname is validated before the maintenance flag.
createRoomChecksNicknameFirst ==
    /\ IF Trim(nickname) = <<>>
       THEN /\ error' = "Nickname is required."
            /\ UNCHANGED <<busy, pending>>
       ELSE IF ~appEnabled
       THEN /\ error' = "Game is in maintenance mode."
            /\ UNCHANGED <<busy, pending>>
       ELSE /\ busy' = TRUE
            /\ withSocket("room:create")
    /\ UNCHANGED <<configVars, mounted, socketRef, formVars, roomVars, matchVars,
                   selfVars, isConnected, copyStatus, logVars, now, lastStatus>>
    /\ RunEffects

createRoom ==
    /\ IF ~appEnabled
       THEN /\ error' = "Game is in maintenance mode."
            /\ UNCHANGED <<busy, pending>>
       ELSE IF Trim(nickname) = <<>>
       THEN /\ error' = "Nickname is required."
            /\ UNCHANGED <<busy, pending>>
       ELSE /\ busy' = TRUE
            /\ withSocket("room:create")
    /\ UNCHANGED <<configVars, mounted, socketRef, formVars, roomVars, matchVars,
                   selfVars, isConnected, copyStatus, logVars, now, lastStatus>>
    /\ RunEffects

joinRoom ==
    /\ IF ~appEnabled
       THEN /\ error' = "Game is in maintenance mode."
            /\ UNCHANGED <<busy, pending>>
       ELSE IF Trim(nickname) = <<>> \/ Trim(roomCodeInput) = <<>>
       THEN /\ error' = "Nickname and room code are required."
            /\ UNCHANGED <<busy, pending>>
       ELSE /\ busy' = TRUE
            /\ withSocket("room:join")
    /\ UNCHANGED <<configVars, mounted, socketRef, formVars, roomVars, matchVars,
                   selfVars, isConnected, copyStatus, logVars, now, lastStatus>>
    /\ RunEffects

startGame ==
    /\ busy' = TRUE
    /\ withSocket("game:start")
    /\ UNCHANGED <<configVars, mounted, socketRef, formVars, roomVars, matchVars,
                   selfVars, isConnected, copyStatus, logVars, now, lastStatus>>
    /\ RunEffects

endGameNow ==
    /\ busy' = TRUE
    /\ withSocket("game:end")
    /\ UNCHANGED <<configVars, mounted, socketRef, formVars, roomVars, matchVars,
                   selfVars, isConnected, copyStatus, logVars, now, lastStatus>>
    /\ RunEffects

playAgain ==
    /\ busy' = TRUE
    /\ withSocket("game:playAgain")
    /\ UNCHANGED <<configVars, mounted, socketRef, formVars, roomVars, matchVars,
                   selfVars, isConnected, copyStatus, logVars, now, lastStatus>>
    /\ RunEffects

AckEvents == {"room:create", "room:join", "game:start", "game:end", "game:playAgain"}

\* The message each callback falls back to when the acknowledgement gives none.
DefaultMessage(event) ==
    CASE event = "room:create" -> "Failed to create room"
      [] event = "room:join" -> "Failed to join room"
      [] event = "game:start" -> "Failed to start game"
      [] event = "game:end" -> "Failed to end game"
      [] event = "game:playAgain" -> "Failed to reset room"

\* The callbacks of room:create and room:join also record the player.
JoinsRoom(event) == event \in {"room:create", "room:join"}

\* The number of emitted commands whose acknowledgement has not arrived.
Outstanding == BagCardinality(pending)

\* Mutant of Ack: a rejection returns before the busy guard is released.
AckKeepsBusyOnFailure(event, result) ==
    /\ Listening
    /\ BagIn(event, pending)
    /\ pending' = pending (-) SetToBag({event})
    /\ IF ~result.ok
       THEN /\ error' = OrElse(result.message, DefaultMessage(event))
            /\ UNCHANGED <<busy, selfVars>>
       ELSE IF JoinsRoom(event)
       THEN /\ playerId' = OrElse(result.playerId, "")
            /\ isJoined' = TRUE
            /\ busy' = FALSE
            /\ UNCHANGED error
       ELSE /\ busy' = FALSE
            /\ UNCHANGED <<error, selfVars>>
    /\ UNCHANGED <<configVars, mounted, socketRef, formVars, roomVars, matchVars,
                   isConnected, copyStatus, logVars, now, lastStatus>>
    /\ RunEffects

\* Mutant of Ack: a create or join callback records the player before it
\* looks at result.ok.
AckJoinsBeforeOkCheck(event, result) ==
    /\ Listening
    /\ BagIn(event, pending)
    /\ pending' = pending (-) SetToBag({event})
    /\ busy' = FALSE
    /\ IF JoinsRoom(event)
       THEN /\ playerId' = OrElse(result.playerId, "")
            /\ isJoined' = TRUE
            /\ error' = IF result.ok THEN error
                        ELSE OrElse(result.message, DefaultMessage(event))
       ELSE /\ error' = IF result.ok THEN error
                        ELSE OrElse(result.message, DefaultMessage(event))
            /\ UNCHANGED selfVars
    /\ UNCHANGED <<configVars, mounted, socketRef, formVars, roomVars, matchVars,
                   isConnected, copyStatus, logVars, now, lastStatus>>
    /\ RunEffects

\* The acknowledgement callback of an outstanding emit of `event` runs with `result`.
Ack(event, result) ==
    /\ Listening
    /\ BagIn(event, pending)
    /\ pending' = pending (-) SetToBag({event})
    /\ busy' = FALSE
    /\ IF ~result.ok
       THEN /\ error' = OrElse(result.message, DefaultMessage(event))
            /\ UNCHANGED selfVars
       ELSE IF JoinsRoom(event)
       THEN /\ playerId' = OrElse(result.playerId, "")
            /\ isJoined' = TRUE
            /\ UNCHANGED error
       ELSE UNCHANGED <<error, selfVars>>
    /\ UNCHANGED <<configVars, mounted, socketRef, formVars, roomVars, matchVars,
                   isConnected, copyStatus, logVars, now, lastStatus>>
    /\ RunEffects

(***************************************************************************)
(* The rendered controls.                                                  *)
(***************************************************************************)
\* The model stops emitting at MaxPending unacknowledged commands.
CanEmit == Outstanding < MaxPending

\* {!isJoined ? <section> the two forms </section> : null}
FormsRendered == mounted /\ ~isJoined

\* disabled={busy || APP_STATUS !== "enabled"} on both submit buttons
SubmitDisabled == busy \/ ~appEnabled

SetNickname(typed) ==
    /\ FormsRendered
    /\ nickname' = typed
    /\ UNCHANGED <<configVars, mounted, socketRef, roomCodeInput, guess, roomVars,
                   matchVars, selfVars, intentVars, isConnected, copyStatus, logVars, now,
                   lastStatus>>
    /\ RunEffects

SetRoomCodeInput(typed) ==
    /\ FormsRendered
    /\ roomCodeInput' = ToUpperCase(typed)
    /\ UNCHANGED <<configVars, mounted, socketRef, nickname, guess, roomVars,
                   matchVars, selfVars, intentVars, isConnected, copyStatus, logVars, now,
                   lastStatus>>
    /\ RunEffects

ClickCreateRoom == FormsRendered /\ ~SubmitDisabled /\ CanEmit /\ createRoom

ClickJoinRoom == FormsRendered /\ ~SubmitDisabled /\ CanEmit /\ joinRoom

ClickStartGame ==
    /\ mounted /\ isJoined /\ roomStatus = "lobby" /\ isHost
    /\ ~(busy \/ Len(players) < 1)
    /\ CanEmit
    /\ startGame

ClickEndGame ==
    /\ mounted /\ isJoined /\ roomStatus = "in_game" /\ isHost
    /\ ~busy
    /\ CanEmit
    /\ endGameNow

ClickPlayAgain ==
    /\ mounted /\ isJoined /\ roomStatus = "finished" /\ isHost
    /\ ~busy
    /\ CanEmit
    /\ playAgain

\* A submit event dispatched on a rendered form runs its onSubmit handler.
SubmitCreateForm == FormsRendered /\ CanEmit /\ createRoom

SubmitJoinForm == FormsRendered /\ CanEmit /\ joinRoom

(***************************************************************************)
(* The guess form and the invitation copy.                                 *)
(***************************************************************************)
\* The guess form is rendered in the in_game view of a joined player.
GuessFormRendered == mounted /\ isJoined /\ roomStatus = "in_game"

SetGuess(typed) ==
    /\ GuessFormRendered
    /\ guess' = typed
    /\ UNCHANGED <<configVars, mounted, socketRef, nickname, roomCodeInput, roomVars,
                   matchVars, selfVars, intentVars, isConnected, copyStatus, logVars,
                   now, lastStatus>>
    /\ RunEffects

\* Mutant of submitGuess: the guess takes the busy guard like a command.
submitGuessHoldsBusy ==
    LET safeGuess == Trim(guess)
    IN IF safeGuess = <<>>
       THEN UNCHANGED vars
       ELSE /\ IF socketRef
               THEN /\ outbox' = Append(outbox, [guess |-> safeGuess])
                    /\ error' = error
               ELSE /\ outbox' = outbox
                    /\ error' = "Socket is not ready"
            /\ guess' = <<>>
            /\ busy' = TRUE
            /\ UNCHANGED <<configVars, mounted, socketRef, nickname, roomCodeInput,
                           roomVars, matchVars, selfVars, pending, isConnected,
                           copyStatus, copyRef, now, lastStatus>>
            /\ RunEffects

\* socket.emit("game:guess", ...) is given no callback; withSocket sets the
\* error when there is no socket, and the guess is cleared either way.
submitGuess ==
    LET safeGuess == Trim(guess)
    IN IF safeGuess = <<>>
       THEN UNCHANGED vars
       ELSE /\ IF socketRef
               THEN /\ outbox' = Append(outbox, [guess |-> safeGuess])
                    /\ error' = error
               ELSE /\ outbox' = outbox
                    /\ error' = "Socket is not ready"
            /\ guess' = <<>>
            /\ UNCHANGED <<configVars, mounted, socketRef, nickname, roomCodeInput,
                           roomVars, matchVars, selfVars, busy, pending, isConnected,
                           copyStatus, copyRef, now, lastStatus>>
            /\ RunEffects

SubmitGuessForm ==
    /\ GuessFormRendered
    /\ Len(outbox) < MaxSent
    /\ submitGuess

\* navigator.clipboard.writeText resolves (written) or rejects; each call that
\* sets a confirmation is a new copy.
copyInvite(written) ==
    IF inviteLink = ""
    THEN UNCHANGED vars
    ELSE /\ copyStatus' = IF written THEN "INVITE LINK COPIED" ELSE "COPY FAILED"
         /\ copyRef' = FreshRef({copyRef, copyTimer})
         /\ UNCHANGED <<configVars, mounted, socketRef, formVars, roomVars, matchVars,
                        selfVars, intentVars, isConnected, outbox, now, lastStatus>>
         /\ RunEffects

\* The header's button and the lobby's button.
ClickCopyInvite(written) ==
    /\ mounted /\ isHost
    /\ roomCode # "" \/ (isJoined /\ roomStatus = "lobby")
    /\ copyInvite(written)

\* The setTimeout callback of the copyStatus effect.
CopyExpire ==
    /\ mounted
    /\ copyTimer # 0
    /\ copyStatus' = ""
    /\ UNCHANGED <<configVars, mounted, socketRef, formVars, roomVars, matchVars,
                   selfVars, intentVars, isConnected, logVars, now, lastStatus>>
    /\ roundTimer' = RoundEffect(roundTimer)
    /\ feedbackTimer' = FeedbackEffect(feedbackTimer)
    /\ copyTimer' = CopyEffect(0)

(***************************************************************************)
(* Spec: inbound events, timers and the clock; the user stays idle.        *)
(***************************************************************************)
InitIdle == Init /\ appEnabled /\ roomCodeInput = <<>>

Next ==
    \/ Mount
    \/ Connect
    \/ Disconnect
    \/ \E payload \in ServerErrorPayloads : ServerError(payload)
    \/ \E payload \in Snapshots : RoomState(payload)
    \/ GameStarted
    \/ \E payload \in TickPayloads : GameTick(payload)
    \/ \E payload \in RoundPayloads : GameRound(payload)
    \/ \E payload \in RoundEndPayloads : GameRoundEnded(payload)
    \/ \E payload \in GameEndedPayloads : GameEnded(payload)
    \/ \E payload \in GuessResultPayloads : GuessResult(payload)
    \/ RoundTick
    \/ FeedbackExpire
    \/ AdvanceClock

Spec == InitIdle /\ [][Next]_vars

(***************************************************************************)
(* SpecGateway: commands through the rendered, enabled controls.           *)
(***************************************************************************)
Environment ==
    \/ Mount
    \/ Connect
    \/ Disconnect
    \/ \E payload \in ServerErrorPayloads : ServerError(payload)
    \/ \E payload \in RoomSnapshots : RoomState(payload)
    \/ GameStarted
    \/ \E payload \in GameEndedPayloads : GameEnded(payload)
    \/ \E event \in AckEvents, result \in AckResults : Ack(event, result)
    \/ \E typed \in TypedNicknames : SetNickname(typed)
    \/ \E typed \in TypedRoomCodes : SetRoomCodeInput(typed)
    \/ ClickStartGame
    \/ ClickEndGame
    \/ ClickPlayAgain

NextGateway ==
    \/ Environment
    \/ ClickCreateRoom
    \/ ClickJoinRoom

SpecGateway == Init /\ [][NextGateway]_vars

(***************************************************************************)
(* The state of the host of room AB12 once the match has started: room     *)
(* created, acknowledged, snapshot received, game:started received.        *)
(***************************************************************************)
InitInGame ==
    /\ hasSocketUrl = TRUE
    /\ appEnabled = TRUE
    /\ mounted = TRUE
    /\ socketRef = TRUE
    /\ nickname = <<"A">>
    /\ roomCodeInput = <<>>
    /\ roomCode = "AB12"
    /\ playerId = "p1"
    /\ roomStatus = "in_game"
    /\ players = <<Player("p1", "Ann", 10, TRUE)>>
    /\ isConnected = TRUE
    /\ isJoined = TRUE
    /\ globalSeconds = InitialGlobalSeconds
    /\ round = Null
    /\ roundRemainingMs = 0
    /\ roundEnd = Null
    /\ ended = Null
    /\ guessFeedback = Null
    /\ copyStatus = ""
    /\ guess = <<>>
    /\ error = ""
    /\ busy = FALSE
    /\ pending = EmptyBag
    /\ outbox = <<>>
    /\ roundTimer = {}
    /\ feedbackTimer = {}
    /\ copyTimer = 0
    /\ now = 0
    /\ lastStatus = "in_game"
    /\ copyRef = 0

(***************************************************************************)
(* SpecFair: Spec with timeouts that fire.  A setTimeout that stays live   *)
(* runs its callback; one that is cleared and set again for a new object   *)
(* is another timeout, so the fairness is that of each timeout by itself.  *)
(***************************************************************************)
SpecFair ==
    /\ InitIdle
    /\ [][Next]_vars
    /\ \A ref \in 1..MaxRefs : WF_vars(FeedbackTimeout(ref))

(***************************************************************************)
(* SpecClock: the round's countdown while the match is played.             *)
(***************************************************************************)
NextClock ==
    \/ Disconnect
    \/ Connect
    \/ \E payload \in RoomSnapshots : RoomState(payload)
    \/ GameStarted
    \/ \E payload \in ClockRoundPayloads : GameRound(payload)
    \/ \E payload \in RoundEndPayloads : GameRoundEnded(payload)
    \/ \E payload \in GameEndedPayloads : GameEnded(payload)
    \/ RoundTick
    \/ AdvanceClock
    \/ \E typed \in TypedGuesses : SetGuess(typed)

SpecClock == InitInGame /\ [][NextClock]_vars

(***************************************************************************)
(* SpecPlay: guesses and the host's end-game command during the match.     *)
(***************************************************************************)
NextPlay ==
    \/ Disconnect
    \/ Connect
    \/ \E payload \in ServerErrorPayloads : ServerError(payload)
    \/ GameStarted
    \/ \E payload \in RoundPayloads : GameRound(payload)
    \/ \E payload \in RoundEndPayloads : GameRoundEnded(payload)
    \/ \E payload \in GameEndedPayloads : GameEnded(payload)
    \/ \E event \in AckEvents, result \in AckResults : Ack(event, result)
    \/ \E typed \in TypedGuesses : SetGuess(typed)
    \/ SubmitGuessForm
    \/ ClickEndGame

SpecPlay == InitInGame /\ [][NextPlay]_vars

(***************************************************************************)
(* SpecSnapshot: room snapshots arriving in the middle of a match, with a  *)
(* round, a round end, a result, a feedback or a command outstanding.      *)
(***************************************************************************)
NextSnapshot ==
    \/ Disconnect
    \/ Connect
    \/ \E payload \in ServerErrorPayloads : ServerError(payload)
    \/ \E payload \in RoomSnapshots : RoomState(payload)
    \/ \E payload \in TickPayloads : GameTick(payload)
    \/ \E payload \in RoundPayloads : GameRound(payload)
    \/ \E payload \in RoundEndPayloads : GameRoundEnded(payload)
    \/ \E payload \in GameEndedPayloads : GameEnded(payload)
    \/ \E payload \in GuessResultPayloads : GuessResult(payload)
    \/ \E event \in AckEvents, result \in AckResults : Ack(event, result)
    \/ ClickEndGame

SpecSnapshot == InitInGame /\ [][NextSnapshot]_vars

(***************************************************************************)
(* SpecFeedback: the two transient notices and their expiry timers.        *)
(***************************************************************************)
NextFeedback ==
    \/ Disconnect
    \/ Connect
    \/ GameStarted
    \/ \E payload \in RoundPayloads : GameRound(payload)
    \/ \E payload \in GuessResultPayloads : GuessResult(payload)
    \/ FeedbackExpire
    \/ \E written \in BOOLEAN : ClickCopyInvite(written)
    \/ CopyExpire

SpecFeedback == InitInGame /\ [][NextFeedback]_vars

(***************************************************************************)
(* SpecLeaderboard: snapshots with every order and tie of the scores.      *)
(***************************************************************************)
NextLeaderboard ==
    \/ Mount
    \/ Connect
    \/ \E payload \in LeaderboardSnapshots : RoomState(payload)

SpecLeaderboard == InitIdle /\ [][NextLeaderboard]_vars

(***************************************************************************)
(* SpecPreview: every masked pattern under every typed guess.              *)
(***************************************************************************)
NextPreview ==
    \/ \E payload \in PreviewRoundPayloads : GameRound(payload)
    \/ \E typed \in PreviewGuesses : SetGuess(typed)

SpecPreview == InitInGame /\ [][NextPreview]_vars

(***************************************************************************)
(* SpecSubmit: the forms' submit events reach onSubmit directly.           *)
(***************************************************************************)
NextSubmit ==
    \/ Environment
    \/ SubmitCreateForm
    \/ SubmitJoinForm

SpecSubmit == Init /\ [][NextSubmit]_vars

(***************************************************************************)
(* Properties.                                                             *)
(***************************************************************************)
\* A lobby snapshot is being applied in this step.
LobbySnapshotStep == \E payload \in Snapshots : payload.status = "lobby" /\ RoomState(payload)

\* C1: every room:state step leaves roomCode, roomStatus and players equal to its
\* payload (the previous list is replaced, not merged), and in every reachable
\* state applying a snapshot twice gives the state that applying it once gives.
C1_SnapshotReplacesAndIsIdempotent ==
    /\ [](\A payload \in Snapshots :
            ApplyRoomState(ApplyRoomState(SyncState, payload), payload)
                = ApplyRoomState(SyncState, payload))
    /\ [][\A payload \in Snapshots :
            RoomState(payload) =>
                /\ roomCode' = payload.roomCode
                /\ roomStatus' = payload.status
                /\ players' = payload.players]_vars

\* C1 witness: a snapshot with an empty list has replaced the room.
C1_Witness == roomCode = "CD34" /\ players = <<>> /\ roomStatus = "finished"

\* C2: a room:state step whose status is lobby leaves round, roundEnd, ended and
\* guessFeedback null and roundRemainingMs at 0, whatever they were.
C2_LobbySnapshotResetsMatch ==
    [][LobbySnapshotStep =>
            /\ round' = Null
            /\ roundEnd' = Null
            /\ ended' = Null
            /\ guessFeedback' = Null
            /\ roundRemainingMs' = 0]_vars

\* C2 witness: the room is back in the lobby of a known room, all match state gone.
C2_Witness ==
    /\ roomStatus = "lobby" /\ roomCode = "AB12" /\ Len(players) = 2
    /\ round = Null /\ roundEnd = Null /\ ended = Null /\ guessFeedback = Null
    /\ roundRemainingMs = 0

\* C3: roomStatus is the status carried by the latest status-bearing event
\* (room:state, game:started, game:ended), lobby before the first one; lastStatus
\* is written by those three handlers only, so no other step moves roomStatus.
C3_StatusReflectsLatestEvent == roomStatus = lastStatus

\* C3 witness: after the match ended, a round and a tick arrived; still finished.
C3_Witness == roomStatus = "finished" /\ round # Null /\ globalSeconds = 179

\* C4 (as claimed): at most one acknowledgement-requiring command is outstanding.
C4_AtMostOneOutstanding == Outstanding <= 1

\* C5 (as claimed): a Round is present iff roomStatus = in_game and no RoundEnd is.
C5_RoundIffInGameWithoutRoundEnd ==
    (round # Null) <=> (roomStatus = "in_game" /\ roundEnd = Null)

\* C5 (amended): a Round is present after a step exactly when the step is
\* game:round, or a Round was present and the step is none of game:roundEnded,
\* game:ended and a lobby snapshot; roomStatus does not enter into it.
C5_RoundLivesFromBeginToClear ==
    [][(round' # Null) <=>
            \/ \E payload \in RoundPayloads : GameRound(payload)
            \/ /\ round # Null
               /\ ~(\E payload \in RoundEndPayloads : GameRoundEnded(payload))
               /\ ~(\E payload \in GameEndedPayloads : GameEnded(payload))
               /\ ~LobbySnapshotStep]_vars

\* C5 witness: the match has started and neither a Round nor a RoundEnd is present.
C5_Witness == roomStatus = "in_game" /\ round = Null /\ roundEnd = Null /\ ended = Null

\* C6: round and roundEnd are never both present; game:round sets round and clears
\* roundEnd, game:roundEnded sets roundEnd and clears round, and no other step
\* gives either of them a new value.
C6_RoundExcludesRoundEnd ==
    /\ [](~(round # Null /\ roundEnd # Null))
    /\ [][/\ \A payload \in RoundPayloads :
                GameRound(payload) => round' = payload /\ roundEnd' = Null
          /\ \A payload \in RoundEndPayloads :
                GameRoundEnded(payload) => roundEnd' = payload /\ round' = Null
          /\ (round' # Null /\ round' # round) =>
                \E payload \in RoundPayloads : GameRound(payload)
          /\ (roundEnd' # Null /\ roundEnd' # roundEnd) =>
                \E payload \in RoundEndPayloads : GameRoundEnded(payload)]_vars

\* C6 witness: a round is running and no RoundEnd is shown beside it.
C6_Witness == round # Null /\ roundEnd = Null /\ roundRemainingMs = 3 /\ roomStatus = "in_game"

\* C7 (as claimed): a MatchResult is present only while roomStatus = finished.
C7_ResultOnlyWhileFinished == ended # Null => roomStatus = "finished"

\* C7 (amended): a MatchResult is never present while roomStatus = lobby; it is set
\* only by game:ended, which sets roomStatus = finished, and it is discarded by
\* game:started and by a lobby snapshot.
C7_ResultSetByEndedDiscardedByLobby ==
    /\ [](ended # Null => roomStatus # "lobby")
    /\ [][/\ (ended' # Null /\ ended' # ended) =>
                /\ \E payload \in GameEndedPayloads : GameEnded(payload)
                /\ roomStatus' = "finished"
          /\ GameStarted => ended' = Null
          /\ LobbySnapshotStep => ended' = Null]_vars

\* C7 witness: a snapshot carrying in_game arrived after the match ended.
C7_Witness == ended # Null /\ roomStatus = "in_game"

\* C8: a step that takes isConnected from true to false changes no other cell.
C8_DisconnectKeepsState ==
    [][(isConnected /\ ~isConnected') =>
            UNCHANGED <<roomCode, roomStatus, players, round, roundEnd, ended,
                        guessFeedback, roundRemainingMs, globalSeconds, isJoined,
                        playerId, busy, error, pending, nickname, roomCodeInput,
                        guess, copyStatus, socketRef>>]_vars

\* C8 witness: offline with the room, the players and the running round retained.
C8_Witness ==
    /\ ~isConnected /\ roomCode = "AB12" /\ players # <<>>
    /\ roomStatus = "in_game" /\ round # Null /\ guessFeedback # Null

\* A local precondition of the create form / of the join form fails.
CreatePreconditionFails == ~appEnabled \/ Trim(nickname) = <<>>

JoinPreconditionFails ==
    ~appEnabled \/ Trim(nickname) = <<>> \/ Trim(roomCodeInput) = <<>>

\* C9: a create or join whose local precondition fails registers no emit, leaves
\* busy as it was and sets an error; with the application not enabled the error
\* is "Game is in maintenance mode." whatever the nickname and the room code.
C9_FailedPreconditionStaysLocal ==
    [][(\/ SubmitCreateForm /\ CreatePreconditionFails
        \/ SubmitJoinForm /\ JoinPreconditionFails) =>
            /\ pending' = pending
            /\ busy' = busy
            /\ error' # ""
            /\ ~appEnabled => error' = "Game is in maintenance mode."]_vars

\* C9 witness: maintenance error shown although the nickname and room code are valid.
C9_Witness ==
    /\ error = "Game is in maintenance mode." /\ nickname = <<"A">>
    /\ roomCodeInput = <<"A">> /\ ~busy /\ pending = EmptyBag

\* C10: an acknowledgement with ok:false releases busy, sets error to its message
\* or to the command's default message, and changes neither isJoined, playerId
\* nor any room or match cell.
C10_RejectionReleasesBusy ==
    [][\A event \in AckEvents, result \in AckResults :
            (pending' # pending /\ ~result.ok /\ Ack(event, result)) =>
                /\ busy' = FALSE
                /\ error' = IF result.message = Undefined
                            THEN DefaultMessage(event)
                            ELSE result.message
                /\ UNCHANGED <<isJoined, playerId, roomVars, matchVars>>]_vars

\* C10 witness: a join was rejected without a message; still not joined, not busy.
C10_Witness == error = "Failed to join room" /\ ~busy /\ ~isJoined /\ playerId = ""

\* C11: an acknowledgement of room:create or room:join with ok true and a
\* playerId leaves isJoined true, playerId equal to the acknowledged id and
\* busy false; and isJoined becomes true in no step other than an
\* acknowledgement of room:create or room:join with ok true.
C11_JoinedOnlyByAcceptedCreateOrJoin ==
    [][ /\ \A event \in {"room:create", "room:join"}, result \in AckResults :
              (/\ pending' # pending
               /\ result.ok
               /\ result.playerId # Undefined
               /\ Ack(event, result))
              => (isJoined' /\ playerId' = result.playerId /\ ~busy')
        /\ (~isJoined /\ isJoined')
              => \E event \in {"room:create", "room:join"}, result \in AckResults :
                     result.ok /\ Ack(event, result) ]_vars

C11_Witness == isJoined /\ playerId = "p1" /\ ~busy /\ pending = EmptyBag

\* The progress shown is a fraction between 0 and 1.
ProgressWithinUnit ==
    /\ roundProgress.den > 0
    /\ 0 <= roundProgress.num
    /\ roundProgress.num <= roundProgress.den

\* A tick of the round's interval stores max(0, roundEndsAt - now) of the
\* round that is present, whatever was stored before.
TickStoresClampedRemaining ==
    \A captured \in roundTimer :
        RoundInterval(captured)
        => /\ round # Null
           /\ roundRemainingMs' = Max(0, round.roundEndsAt - now)
           /\ now >= round.roundEndsAt => roundRemainingMs' = 0

RoundBeginsStep == \E payload \in ClockRoundPayloads : GameRound(payload)

RoundEndsStep == \E payload \in RoundEndPayloads : GameRoundEnded(payload)

MatchEndedStep == \E payload \in GameEndedPayloads : GameEnded(payload)

\* A tick leaves the round as it is.
TickKeepsRound == RoundTick => round' = round

\* With the deadline passed and 0 stored, 0 stays stored while no new round begins.
ZeroStaysAfterDeadline ==
    (/\ round # Null
     /\ now >= round.roundEndsAt
     /\ roundRemainingMs = 0
     /\ ~RoundBeginsStep)
    => roundRemainingMs' = 0

\* C13 as stated: a tick never changes the round, after the deadline the
\* remaining time stays 0, and a round that is present is removed only by a
\* game:roundEnded or a game:ended step.
C13_RoundRemovedOnlyByRoundEndsOrMatchEnded ==
    [][ /\ TickKeepsRound
        /\ ZeroStaysAfterDeadline
        /\ (round # Null /\ round' = Null) => (RoundEndsStep \/ MatchEndedStep) ]_vars

\* C13 amended: a tick never changes the round, after the deadline the
\* remaining time stays 0, and a round that is present is removed or replaced
\* only by a step of an inbound event: game:roundEnded, game:ended, a lobby
\* room:state, or the game:round that begins the next round.
C13_RoundRemovedOnlyByInboundEvents ==
    [][ /\ TickKeepsRound
        /\ ZeroStaysAfterDeadline
        /\ (round # Null /\ round' # round)
              => (RoundEndsStep \/ MatchEndedStep \/ LobbySnapshotStep
                    \/ RoundBeginsStep) ]_vars

C13_Witness ==
    /\ round # Null
    /\ now > round.roundEndsAt
    /\ roundRemainingMs = 0
    /\ roundTimer = {round}
    /\ guess # <<>>

\* C14: each notice has at most one live expiry timer, and the timer that
\* empties a notice is the one started for the value it empties: the latest
\* guessFeedback object, the latest copy confirmation.
C14_ExpiryBelongsToLatestValue ==
    /\ [](Cardinality(feedbackTimer) <= 1)
    /\ [][ /\ \A ref \in feedbackTimer :
                 FeedbackTimeout(ref) => RefOf(guessFeedback) = {ref}
           /\ CopyExpire => copyTimer = copyRef ]_vars

\* The number of times an element occurs in a sequence.
Occurrences(list, element) == Cardinality({i \in 1..Len(list) : list[i] = element})

\* C15: in every reachable state the leaderboard is a permutation of the
\* player list, in non-increasing order of score, with players of equal score
\* in the order the player list has them, and computing it leaves the player
\* list as it was.
C15_LeaderboardStableDescendingPermutation ==
    /\ Len(sortedPlayers) = Len(players)
    /\ \A i \in 1..Len(players) :
          Occurrences(sortedPlayers, players[i]) = Occurrences(players, players[i])
    /\ \A i, j \in 1..Len(sortedPlayers) :
          i < j => sortedPlayers[i].score >= sortedPlayers[j].score
    /\ \A i, j \in 1..Len(players) :
          (i < j /\ players[i].score = players[j].score)
          => \E k, l \in 1..Len(sortedPlayers) :
                 k < l /\ sortedPlayers[k] = players[i] /\ sortedPlayers[l] = players[j]
    /\ Leaderboard(players).players = players

C15_Witness ==
    /\ Len(players) = 3
    /\ players[1].score < players[2].score
    /\ players[2].score = players[3].score
    /\ sortedPlayers = <<players[2], players[3], players[1]>>

\* The typed guess as it is overlaid: upper-cased, its whitespace left out.
OverlaidGuess == ToUpperCase(RemoveWhitespace(guess))

\* C16: while a round is present, the preview of its pattern under the typed
\* guess has as many tokens as the pattern and the pattern's first and last
\* token; an interior token differs from the pattern's only by being the A-Z
\* letter at the same position of the overlaid guess, and is the pattern's
\* token when the guess has no character or no letter there; a pattern of two
\* or fewer tokens is returned as it is.
C16_PreviewOverlaysInteriorOnly ==
    round # Null =>
        LET tokens == Split(round.display)
            shown == Split(previewText)
            n == Len(tokens)
        IN /\ Len(shown) = n
           /\ shown[1] = tokens[1]
           /\ shown[n] = tokens[n]
           /\ \A k \in 2..(n - 1) :
                 IF k <= Len(OverlaidGuess) /\ OverlaidGuess[k] \in UpperLetters
                 THEN shown[k] = <<OverlaidGuess[k]>>
                 ELSE shown[k] = tokens[k]
           /\ n <= 2 => previewText = round.display

C16_Witness ==
    /\ round # Null
    /\ round.display = <<"X", " ", "_", " ", "_", " ", "X">>
    /\ guess = <<" ", "a", "a">>
    /\ previewText = <<"X", " ", "A", " ", "_", " ", "X">>

\* C17: with no socket URL configured, in every reachable state there is no
\* socket, no connection, no command held by or handed to the transport, and
\* the notice of the missing URL is shown; no step changes whether the URL is
\* configured.
C17_NoEndpointNoTransport ==
    /\ [](missingSocketUrl
            => /\ ~socketRef
               /\ ~isConnected
               /\ pending = EmptyBag
               /\ outbox = <<>>
               /\ ~isJoined)
    /\ [][missingSocketUrl' = missingSocketUrl]_vars

C17_Witness ==
    /\ missingSocketUrl
    /\ mounted
    /\ nickname # <<>>
    /\ error = "Socket is not ready"

\* C18: every server:error step, whatever the state it is taken in, leaves
\* busy false and the error equal to the pushed message, or to "Unexpected
\* server error" when the push has none, and leaves the room, the player, the
\* round and the match as they were.
C18_ServerErrorReleasesBusyOnly ==
    [][ \A payload \in ServerErrorPayloads :
            ServerError(payload)
            => /\ ~busy'
               /\ payload.message # Undefined => error' = payload.message
               /\ payload.message = Undefined => error' = "Unexpected server error"
               /\ UNCHANGED <<roomVars, selfVars, matchVars>> ]_vars

C18_Witness ==
    /\ error = "Unexpected server error"
    /\ ~busy
    /\ Outstanding = 1
    /\ roomStatus = "in_game"
    /\ isJoined

C20_GuessIsFireAndForget ==
    [][ SubmitGuessForm
        => IF Trim(guess) # <<>>
           THEN /\ outbox' = Append(outbox, [guess |-> Trim(guess)])
                /\ \A i \in 1..Len(outbox') : outbox'[i].guess = Trim(outbox'[i].guess)
                /\ pending' = pending
                /\ busy' = busy
                /\ guess' = <<>>
           ELSE UNCHANGED vars ]_vars

C20_Witness ==
    /\ busy
    /\ Outstanding = 1
    /\ guess = <<>>
    /\ outbox = <<[guess |-> <<"a">>], [guess |-> <<"b">>]>>

GuessResultStep == \E payload \in GuessResultPayloads : GuessResult(payload)

\* C21: if from some point on no game:guessResult arrives, then whenever a
\* guessFeedback is present it is eventually absent.
C21_FeedbackEventuallyDisappears ==
    (<>[][~GuessResultStep]_vars) => ((guessFeedback # Null) ~> (guessFeedback = Null))

C21_Witness ==
    /\ guessFeedback # Null
    /\ guessFeedback.ref = 2
    /\ feedbackTimer = {2}
    /\ ~isConnected

\* C22: in every reachable state, busy is true only while a command that
\* takes an acknowledgement has been emitted and its acknowledgement has not
\* arrived.
C22_BusyOnlyWhileOutstanding == busy => Outstanding >= 1

C24_MatchSnapshotKeepsTheRest ==
    [][ \A payload \in Snapshots :
            (payload.status # "lobby" /\ RoomState(payload))
            => /\ roomCode' = payload.roomCode
               /\ roomStatus' = payload.status
               /\ players' = payload.players
               /\ UNCHANGED <<round, roundEnd, ended, guessFeedback, roundRemainingMs,
                              globalSeconds, busy, error, isJoined, playerId>> ]_vars

C24_Witness ==
    /\ roomStatus = "finished"
    /\ lastStatus = "finished"
    /\ round # Null
    /\ guessFeedback # Null
    /\ globalSeconds = 179
    /\ busy
    /\ Len(players) = 2

====
